---- MODULE Spec2Model ----
(***************************************************************************)
(* Model of connectlib's Scaffold strategy (strategies/scaffold.py) and    *)
(* of the nodes it drives (nodes/train_data_node.py).                      *)
(*                                                                         *)
(* The strategy builds a graph of deferred operations: perform_round       *)
(* appends one train tuple per participant and one aggregation tuple,      *)
(* predict appends one forward tuple on the matching participant and one   *)
(* test tuple per evaluation node.  Nothing is executed.                   *)
(*                                                                         *)
(* Python None is modelled by 0 (operation ids start at 1); the optional   *)
(* list self._local_states is a record [isNone, refs].  LocalStateRef(id)  *)
(* and SharedStateRef(id) are modelled by their key, the id.               *)
(***************************************************************************)
EXTENDS Integers, Sequences, FiniteSets, TLC

\* ------------------------------------------------------------------ bounds
\* Number of perform_round / predict calls the driver makes in one behaviour.
MaxCalls == 3
\* Number of direct TrainDataNode.compute calls in one behaviour.
MaxComputes == 2
\* Largest number of layers of a shared state given to the aggregation.
MaxLayers == 2
\* Largest num_updates an index generator is built with.
MaxUpdates == 5
\* Most operations (construction, requests, resets) on one index generator.
MaxRequests == 6
\* Most train and predict calls on one Algo.
MaxAlgoCalls == 2

\* ------------------------------------------------------------ environment
None == 0

\* The participant nodes and the evaluation nodes the driver owns.
TrainNodes == {"A", "B"}
TestNodes == {"E1", "E3"}

\* node_id of every node: E1 evaluates on A's organisation, E3 on one that
\* holds no participant.
NodeId == [n \in TrainNodes \cup TestNodes |->
             CASE n = "A" -> "0" [] n = "B" -> "1" [] n = "E1" -> "0" [] OTHER -> "2"]
DataManagerKey == [n \in TrainNodes |-> IF n = "A" THEN "dmA" ELSE "dmB"]
DataSampleKeys == [n \in TrainNodes |-> IF n = "A" THEN <<"a1", "a2">> ELSE <<"b1">>]

\* The argument lists the driver passes.
TrainLists == {<< >>, <<"A">>, <<"A", "B">>, <<"B", "A">>}
PredictTrainLists == {<<"A", "B">>, <<"B", "A">>}
TestLists == {<< >>, <<"E1">>, <<"E3">>, <<"E1", "E3">>}
RoundIdxs == {0, 1}

VARIABLES
  local_states,      \* Scaffold._local_states
  avg_shared_state,  \* Scaffold._avg_shared_state
  tuples,            \* TrainDataNode.tuples, per participant node
  agg_tuples,        \* AggregationNode.tuples
  test_tuples,       \* TestDataNode.tuples, per evaluation node
  next_op,           \* the next fresh operation id (uuid4 never repeats)
  calls,             \* history: number of calls made so far
  done_call,         \* history: call number of the last completed round (0: none)
  done_nodes,        \* history: participant list of the last completed round
  done_idxs,         \* history: the round_idx values of the completed rounds
  completed,         \* history: number of completed rounds
  meta,              \* history: per operation id, the call and round that issued it
  last,              \* history: the most recent call, its arguments and the state before it
  node_call,         \* a direct call of TrainDataNode.compute: arguments, refs returned
  agg,               \* a call of Scaffold.avg_shared_states: arguments, result
  gen,               \* an index generator: constructor arguments, fields, batches yielded
  algo               \* an Algo and a prior local model: weights, the last train/predict call

strategy_vars == <<local_states, avg_shared_state, agg_tuples, test_tuples,
                   calls, done_call, done_nodes, done_idxs, completed, meta, last>>

vars == <<local_states, avg_shared_state, tuples, agg_tuples, test_tuples, next_op,
          calls, done_call, done_nodes, done_idxs, completed, meta, last,
          node_call, agg, gen, algo>>

\* ------------------------------------------------------- TrainDataNode
\* The dictionary compute builds.  data_sample_keys is the optional argument:
\* {} when the caller passes None, {keys} otherwise.
train_tuple_falsy(node, operation, data_sample_keys, local_state, shared_state, op_id) ==
  [algo_key |-> operation,
   data_manager_key |-> DataManagerKey[node],
   train_data_sample_keys |->
     IF data_sample_keys \subseteq {<< >>} THEN DataSampleKeys[node]
     ELSE CHOOSE k \in data_sample_keys : TRUE,
   in_head_model_id |-> local_state,
   in_trunk_model_id |-> shared_state,
   tag |-> "train",
   composite_traintuple_id |-> op_id]

train_tuple_shared_id(node, operation, data_sample_keys, local_state, shared_state, op_id) ==
  [algo_key |-> operation,
   data_manager_key |-> DataManagerKey[node],
   train_data_sample_keys |->
     IF data_sample_keys = {} THEN DataSampleKeys[node]
     ELSE CHOOSE k \in data_sample_keys : TRUE,
   in_head_model_id |-> local_state,
   in_trunk_model_id |-> shared_state,
   tag |-> "train",
   composite_traintuple_id |-> 1]

train_tuple(node, operation, data_sample_keys, local_state, shared_state, op_id) ==
  [algo_key |-> operation,
   data_manager_key |-> DataManagerKey[node],
   train_data_sample_keys |->
     IF data_sample_keys = {} THEN DataSampleKeys[node]
     ELSE CHOOSE k \in data_sample_keys : TRUE,
   in_head_model_id |-> local_state,
   in_trunk_model_id |-> shared_state,
   tag |-> "train",
   composite_traintuple_id |-> op_id]

compute_reset(log, node, operation, data_sample_keys, local_state, shared_state, op_id) ==
  <<train_tuple(node, operation, data_sample_keys, local_state, shared_state, op_id)>>

\* TrainDataNode.compute: the node's log after the call.  The refs returned are
\* LocalStateRef(op_id) and SharedStateRef(op_id).
compute(log, node, operation, data_sample_keys, local_state, shared_state, op_id) ==
  Append(log, train_tuple(node, operation, data_sample_keys, local_state, shared_state, op_id))

\* ------------------------------------------- AggregationNode, TestDataNode
\* AggregationNode.update_states: one aggregate tuple over the shared states
\* given, in the order given; returns SharedStateRef(op_id).
aggregate_tuple(shared_states, op_id) ==
  [algo_key |-> "avg_shared_states",
   in_models_ids |-> shared_states,
   tag |-> "aggregate",
   aggregatetuple_id |-> op_id]

\* TestDataNode.update_states: one test tuple consuming a traintuple id.
test_tuple(test_node, traintuple_id) ==
  [traintuple_id |-> traintuple_id, tag |-> "test"]

\* --------------------------------------------------- Scaffold.perform_round
previous_local_state_first(i) ==
  IF local_states.isNone THEN None ELSE local_states.refs[1]

\* previous_local_state of participant number i (1-based here, 0-based there).
previous_local_state(i) ==
  IF local_states.isNone THEN None ELSE local_states.refs[i]

train_shared_state_absent == None

\* shared_state=self._avg_shared_state
train_shared_state == avg_shared_state

collect_twice(states, ref) == Append(Append(states, ref), ref)

collect_shifted(states, ref) == Append(states, ref + 1)

collect_front(states, ref) == <<ref>> \o states

\* next_local_states.append(...) / states_to_aggregate.append(...)
collect(states, ref) == Append(states, ref)

\* The for loop of perform_round, from participant number i on.  st holds the
\* node logs, the id counter and the two lists built so far; raised names the
\* exception that ended the loop ("none": it ran to its end).
RECURSIVE train_loop(_, _, _)
train_loop(st, i, train_data_nodes) ==
  IF i > Len(train_data_nodes) THEN st
  ELSE IF ~local_states.isNone /\ i > Len(local_states.refs)
  THEN [st EXCEPT !.raised = "IndexError"]
  ELSE LET node == train_data_nodes[i]
           op_id == st.next_op
       IN train_loop(
            [tuples |-> [st.tuples EXCEPT ![node] =
                           compute(st.tuples[node], node, "train", {DataSampleKeys[node]},
                                   previous_local_state(i), train_shared_state, op_id)],
             next_op |-> op_id + 1,
             next_local_states |-> collect(st.next_local_states, op_id),
             states_to_aggregate |-> collect(st.states_to_aggregate, op_id),
             raised |-> "none"],
            i + 1, train_data_nodes)

loop_start ==
  [tuples |-> tuples, next_op |-> next_op, next_local_states |-> << >>,
   states_to_aggregate |-> << >>, raised |-> "none"]

new_local_states_early(raised, next_local_states) ==
  IF raised = "IndexError" THEN local_states
  ELSE [isNone |-> FALSE, refs |-> next_local_states]

\* self._local_states = next_local_states, reached only when nothing raised.
new_local_states(raised, next_local_states) ==
  IF raised # "none" THEN local_states
  ELSE [isNone |-> FALSE, refs |-> next_local_states]

new_avg_shared_state_stale(raised, avg) ==
  IF raised # "none" \/ avg_shared_state # None THEN avg_shared_state ELSE avg

\* self._avg_shared_state = avg_shared_state, reached only when nothing raised.
new_avg_shared_state(raised, avg) ==
  IF raised # "none" THEN avg_shared_state ELSE avg

\* What the call leaves behind for the history variables.
Snapshot(op, train_data_nodes, test_data_nodes, round_idx, outcome, fail_at) ==
  [op |-> op, train_data_nodes |-> train_data_nodes, test_data_nodes |-> test_data_nodes,
   round_idx |-> round_idx, outcome |-> outcome, fail_at |-> fail_at,
   pre_local_states |-> local_states, pre_avg |-> avg_shared_state,
   pre_tuples |-> tuples, pre_agg_tuples |-> agg_tuples, pre_test_tuples |-> test_tuples,
   pre_next_op |-> next_op, pre_done_call |-> done_call, pre_done_nodes |-> done_nodes,
   pre_done_idxs |-> done_idxs, pre_completed |-> completed]

NewMeta(n, round, round_idx) ==
  [k \in 1..n |-> [call |-> calls + 1, round |-> round, round_idx |-> round_idx]]

\* perform_round(algo, train_data_nodes, aggregation_node, round_idx).  reject is
\* the aggregation node's answer: TRUE when its update_states raises.
PerformRound(train_data_nodes, round_idx, reject) ==
  LET loop == train_loop(loop_start, 1, train_data_nodes)
      raised == IF loop.raised # "none" THEN loop.raised
                ELSE IF reject THEN "rejected" ELSE "none"
      agg_id == loop.next_op
      issued == IF raised = "none" THEN agg_id + 1 ELSE loop.next_op
  IN /\ calls < MaxCalls
     /\ tuples' = loop.tuples
     /\ agg_tuples' = IF raised = "none"
                      THEN Append(agg_tuples, aggregate_tuple(loop.states_to_aggregate, agg_id))
                      ELSE agg_tuples
     /\ next_op' = issued
     /\ local_states' = new_local_states(raised, loop.next_local_states)
     /\ avg_shared_state' = new_avg_shared_state(raised, agg_id)
     /\ calls' = calls + 1
     /\ done_call' = IF raised = "none" THEN calls + 1 ELSE done_call
     /\ done_nodes' = IF raised = "none" THEN train_data_nodes ELSE done_nodes
     /\ done_idxs' = IF raised = "none" THEN done_idxs \cup {round_idx} ELSE done_idxs
     /\ completed' = IF raised = "none" THEN completed + 1 ELSE completed
     /\ meta' = meta \o NewMeta(issued - next_op, completed, round_idx)
     /\ last' = Snapshot("perform_round", train_data_nodes, << >>, round_idx,
                         IF raised = "none" THEN "ok" ELSE raised, 0)
     /\ UNCHANGED <<test_tuples, node_call, agg, gen, algo>>

\* ---------------------------------------------------------- Scaffold.predict
RECURSIVE select_nodes(_, _)
select_nodes(train_data_nodes, node_id) ==
  IF train_data_nodes = << >> THEN << >>
  ELSE LET rest == select_nodes(Tail(train_data_nodes), node_id)
       IN IF NodeId[Head(train_data_nodes)] = node_id
          THEN <<Head(train_data_nodes)>> \o rest ELSE rest

matching_train_nodes_all(train_data_nodes, test_node) == train_data_nodes

\* [train_node for train_node in train_data_nodes if train_node.node_id == test_node.node_id]
matching_train_nodes(train_data_nodes, test_node) ==
  select_nodes(train_data_nodes, NodeId[test_node])

\* list.index: the first position holding the node (nodes are told apart as
\* objects; two different nodes never compare equal).
index(train_data_nodes, train_node) ==
  CHOOSE j \in 1..Len(train_data_nodes) :
    /\ train_data_nodes[j] = train_node
    /\ \A h \in 1..(j - 1) : train_data_nodes[h] # train_node

local_state_missing_unchecked(previous) == FALSE

\* assert previous_local_state is not None
local_state_missing(previous) == previous = None

\* The for loop of predict, from evaluation node number k on.
RECURSIVE predict_loop(_, _, _, _)
predict_loop(st, k, test_data_nodes, train_data_nodes) ==
  IF k > Len(test_data_nodes) THEN st
  ELSE
    LET test_node == test_data_nodes[k]
        matching == matching_train_nodes(train_data_nodes, test_node)
    IN IF Len(matching) = 0
       THEN [st EXCEPT !.raised = "NotImplementedError", !.fail_at = k]
       ELSE
         LET train_node == matching[1]
             node_index == index(train_data_nodes, train_node)
         IN IF ~local_states.isNone /\ node_index > Len(local_states.refs)
            THEN [st EXCEPT !.raised = "IndexError", !.fail_at = k]
            ELSE
              LET previous == previous_local_state(node_index)
                  op_id == st.next_op
              IN IF local_state_missing(previous)
                 THEN [st EXCEPT !.raised = "AssertionError", !.fail_at = k]
                 ELSE predict_loop(
                        [tuples |-> [st.tuples EXCEPT ![train_node] =
                                       compute(st.tuples[train_node], train_node, "predict",
                                               {<<DataSampleKeys[train_node][1]>>},
                                               previous, avg_shared_state, op_id)],
                         test_tuples |-> [st.test_tuples EXCEPT ![test_node] =
                                            Append(st.test_tuples[test_node],
                                                   test_tuple(test_node, op_id))],
                         next_op |-> op_id + 1,
                         raised |-> "none", fail_at |-> 0],
                        k + 1, test_data_nodes, train_data_nodes)

local_states_after_predict_stored(loop) ==
  IF loop.next_op > next_op THEN [isNone |-> FALSE, refs |-> <<loop.next_op - 1>>]
  ELSE local_states

\* self._local_states after predict: the method reads it and never assigns it;
\* the LocalStateRef a forward operation returns is dropped.
local_states_after_predict(loop) == local_states

\* predict(algo, test_data_nodes, train_data_nodes, round_idx).
Predict(test_data_nodes, train_data_nodes, round_idx) ==
  LET loop == predict_loop([tuples |-> tuples, test_tuples |-> test_tuples,
                            next_op |-> next_op, raised |-> "none", fail_at |-> 0],
                           1, test_data_nodes, train_data_nodes)
  IN /\ calls < MaxCalls
     /\ tuples' = loop.tuples
     /\ test_tuples' = loop.test_tuples
     /\ next_op' = loop.next_op
     /\ local_states' = local_states_after_predict(loop)
     /\ calls' = calls + 1
     /\ meta' = meta \o NewMeta(loop.next_op - next_op, completed - 1, round_idx)
     /\ last' = Snapshot("predict", train_data_nodes, test_data_nodes, round_idx,
                         IF loop.raised = "none" THEN "ok" ELSE loop.raised, loop.fail_at)
     /\ UNCHANGED <<avg_shared_state, agg_tuples,
                    done_call, done_nodes, done_idxs, completed, node_call, agg, gen, algo>>

\* ------------------------------------------------------------ specification
\* Scaffold.__init__ and freshly built nodes.
InitStrategy ==
  /\ local_states = [isNone |-> TRUE, refs |-> << >>]
  /\ avg_shared_state = None
  /\ tuples = [n \in TrainNodes |-> << >>]
  /\ agg_tuples = << >>
  /\ test_tuples = [n \in TestNodes |-> << >>]
  /\ next_op = 1
  /\ calls = 0
  /\ done_call = 0
  /\ done_nodes = << >>
  /\ done_idxs = {}
  /\ completed = 0
  /\ meta = << >>
  /\ last = [op |-> "init", train_data_nodes |-> << >>, test_data_nodes |-> << >>,
             round_idx |-> 0, outcome |-> "ok", fail_at |-> 0,
             pre_local_states |-> [isNone |-> TRUE, refs |-> << >>], pre_avg |-> None,
             pre_tuples |-> [n \in TrainNodes |-> << >>], pre_agg_tuples |-> << >>,
             pre_test_tuples |-> [n \in TestNodes |-> << >>],
             pre_next_op |-> 1, pre_done_call |-> 0, pre_done_nodes |-> << >>,
             pre_done_idxs |-> {}, pre_completed |-> 0]

\* No direct compute call, no aggregation call and no index generator yet.
NoCall == [n |-> 0]

Init ==
  /\ InitStrategy
  /\ node_call = NoCall
  /\ agg = NoCall
  /\ gen = NoCall
  /\ algo = NoCall

DoPerformRound ==
  \E train_data_nodes \in TrainLists, round_idx \in RoundIdxs, reject \in BOOLEAN :
    PerformRound(train_data_nodes, round_idx, reject)

DoPredict ==
  \E test_data_nodes \in TestLists, train_data_nodes \in PredictTrainLists,
     round_idx \in RoundIdxs :
    Predict(test_data_nodes, train_data_nodes, round_idx)

Next == DoPerformRound \/ DoPredict

Spec == Init /\ [][Next]_vars

\* ------------------------------------------- TrainDataNode.compute, called directly
\* The arguments a caller passes to compute.
OperationKeys == {"train", "predict"}
SampleKeyArgs == {{}, {<< >>}, {<<"k1">>}}
RefKeys == {None, 1}

compute_refs_stale(op_id) == <<op_id - 1, op_id>>

\* return LocalStateRef(op_id), SharedStateRef(op_id)
compute_refs(op_id) == <<op_id, op_id>>

\* node.compute(operation, data_sample_keys, local_state, shared_state); op_id
\* is the uuid drawn, a value no earlier call drew.
DirectCompute(node, operation, data_sample_keys, local_state, shared_state) ==
  /\ node_call.n < MaxComputes
  /\ tuples' = [tuples EXCEPT ![node] =
                  compute(tuples[node], node, operation, data_sample_keys,
                          local_state, shared_state, next_op)]
  /\ next_op' = next_op + 1
  /\ node_call' = [n |-> node_call.n + 1, node |-> node, operation |-> operation,
                   data_sample_keys |-> data_sample_keys,
                   local_state |-> local_state, shared_state |-> shared_state,
                   returned |-> compute_refs(next_op), pre_tuples |-> tuples,
                   refs |-> (IF node_call.n = 0 THEN {} ELSE node_call.refs)
                              \cup {compute_refs(next_op)}]
  /\ UNCHANGED <<strategy_vars, agg, gen, algo>>

DoCompute ==
  \E node \in TrainNodes, operation \in OperationKeys, data_sample_keys \in SampleKeyArgs,
     local_state \in RefKeys, shared_state \in RefKeys :
    DirectCompute(node, operation, data_sample_keys, local_state, shared_state)

SpecNode == Init /\ [][DoCompute]_vars

\* ------------------------------------------------ Scaffold.avg_shared_states
\* A layer's array is one number.  The numbers numpy computes are fractions
\* <<numerator, denominator>>; a zero denominator is nan (0 / 0).
Frac(x) == <<x, 1>>
FMul(a, b) == <<a[1] * b[1], a[2] * b[2]>>
FAdd(a, b) == <<a[1] * b[2] + b[1] * a[2], a[2] * b[2]>>
FDiv(x, y) == <<x, y>>

\* np.sum(arrays, axis=0) of a non-empty list.
RECURSIVE FSum(_)
FSum(arrays) ==
  IF Len(arrays) = 1 THEN arrays[1] ELSE FAdd(arrays[1], FSum(Tail(arrays)))

Min(x, y) == IF x <= y THEN x ELSE y

zip_equal_first(c, ci) == Min(Len(c), Len(ci)) = 0 \/ c[1] = ci[1]

\* for c, ci in zip(...): np.testing.assert_array_equal(c, ci)
zip_equal(c, ci) == \A k \in 1..Min(Len(c), Len(ci)) : c[k] = ci[k]

\* The body of the for loop of _check_shared_states for one shared state:
\* the assertion that fails, "none" when all four hold.
check_one(first, shared_state) ==
  IF Len(shared_state.control_variate_update) # Len(first.control_variate_update)
  THEN "the length of control_variate_update should be the same for each shared_state"
  ELSE IF Len(shared_state.weight_update) # Len(first.weight_update)
  THEN "the length of weight_update should be the same for each shared_state"
  ELSE IF Len(shared_state.server_control_variate) # Len(first.server_control_variate)
  THEN "the length of server_control_variate should be the same for each shared_state"
  ELSE IF ~zip_equal(first.server_control_variate, shared_state.server_control_variate)
  THEN "all server_control_variate in the shared_states are not equal"
  ELSE "none"

same_three_lengths_two(first) ==
  Len(first.control_variate_update) = Len(first.server_control_variate)

\* len(control_variate_update) == len(server_control_variate) == len(weight_update)
same_three_lengths(first) ==
  /\ Len(first.control_variate_update) = Len(first.server_control_variate)
  /\ Len(first.server_control_variate) = Len(first.weight_update)

RECURSIVE check_loop(_, _)
check_loop(shared_states, i) ==
  IF i > Len(shared_states)
  THEN IF same_three_lengths(shared_states[1]) THEN "none"
       ELSE "the length of server_control_variate, weight_update and server_control_variate should be the same"
  ELSE LET failed == check_one(shared_states[1], shared_states[i])
       IN IF failed # "none" THEN failed ELSE check_loop(shared_states, i + 1)

\* _check_shared_states: the message of the assertion that fails, or "none".
check_shared_states(shared_states) ==
  IF shared_states = << >> THEN "shared_states should contain at least one element"
  ELSE check_loop(shared_states, 1)

RECURSIVE SumSamples(_)
SumSamples(shared_states) ==
  IF shared_states = << >> THEN 0
  ELSE shared_states[1].n_samples + SumSamples(Tail(shared_states))

\* client_weight = n_samples_per_client / np.sum(n_samples_per_client)
client_weight(shared_states) ==
  [i \in 1..Len(shared_states) |->
     FDiv(shared_states[i].n_samples, SumSamples(shared_states))]

\* _weight_arrays: client_weight[client_idx] * states_to_aggregate[client_idx][layer_idx]
weight_arrays(weights, states, layer_idx) ==
  [client_idx \in 1..Len(states) |->
     FMul(weights[client_idx], Frac(states[client_idx][layer_idx]))]

update_server_control_variate_scaled(server_control_variate, control_variate_updates, weights, aggregation_lr) ==
  [layer_idx \in 1..Len(control_variate_updates[1]) |->
     FMul(Frac(aggregation_lr),
          FSum(Append(weight_arrays(weights, control_variate_updates, layer_idx),
                      Frac(server_control_variate[layer_idx]))))]

\* _update_server_control_variate; aggregation_lr is self._aggregation_lr, which
\* the method can read and does not.
update_server_control_variate(server_control_variate, control_variate_updates, weights, aggregation_lr) ==
  [layer_idx \in 1..Len(control_variate_updates[1]) |->
     FSum(Append(weight_arrays(weights, control_variate_updates, layer_idx),
                 Frac(server_control_variate[layer_idx])))]

avg_weight_update_unscaled(weight_updates, weights, aggregation_lr) ==
  [layer_idx \in 1..Len(weight_updates[1]) |->
     FSum(weight_arrays(weights, weight_updates, layer_idx))]

\* _avg_weight_update
avg_weight_update(weight_updates, weights, aggregation_lr) ==
  [layer_idx \in 1..Len(weight_updates[1]) |->
     FMul(Frac(aggregation_lr), FSum(weight_arrays(weights, weight_updates, layer_idx)))]

\* avg_shared_states: what it raises and the ScaffoldAveragedStates it returns.
avg_shared_states(shared_states, aggregation_lr) ==
  LET failed == check_shared_states(shared_states)
  IN IF failed # "none"
     THEN [raised |-> failed, server_control_variate |-> << >>, avg_weight_update |-> << >>]
     ELSE LET weights == client_weight(shared_states)
          IN [raised |-> "none",
              server_control_variate |->
                update_server_control_variate(
                  shared_states[1].server_control_variate,
                  [i \in 1..Len(shared_states) |-> shared_states[i].control_variate_update],
                  weights, aggregation_lr),
              avg_weight_update |->
                avg_weight_update(
                  [i \in 1..Len(shared_states) |-> shared_states[i].weight_update],
                  weights, aggregation_lr)]

shared_states_after_aliased(shared_states) ==
  IF shared_states = << >> THEN shared_states
  ELSE [shared_states EXCEPT ![1].control_variate_update = Append(@, 0)]

\* The shared states the caller holds after the call: weighted_arrays is a list
\* _weight_arrays builds, so the append of the server control variate touches
\* no list of the caller.
shared_states_after(shared_states) == shared_states

\* self._aggregation_lr after the call: it is read, never assigned.
aggregation_lr_after(aggregation_lr) == aggregation_lr

\* strategy.avg_shared_states(shared_states), called on the shared states and the
\* strategy the behaviour started with.
Aggregate ==
  /\ agg.n < 2
  /\ agg' = [agg EXCEPT
               !.n = @ + 1,
               !.result = avg_shared_states(agg.shared_states, agg.aggregation_lr),
               !.shared_states = shared_states_after(@),
               !.aggregation_lr = aggregation_lr_after(@)]
  /\ UNCHANGED <<tuples, next_op, strategy_vars, node_call, gen, algo>>

\* The shared states a behaviour aggregates.  Seqs(V, n): the lists of n values of V.
Seqs(V, n) == [1..n -> V]
SeqsUpTo(V, n) == UNION {Seqs(V, k) : k \in 0..n}
\* Shared states of any shape: the three lists of every length, independently.
ShapeStates ==
  [control_variate_update : SeqsUpTo({1}, MaxLayers),
   weight_update : SeqsUpTo({1}, MaxLayers),
   server_control_variate : SeqsUpTo({0, 1}, MaxLayers),
   n_samples : {10}]

\* Shared states of k layers that echo the server control variate scv.
ValueStates(k, scv) ==
  [control_variate_update : Seqs({0, 1}, k),
   weight_update : Seqs({1, 2}, k),
   server_control_variate : {scv},
   n_samples : {0, 10, 30}]

\* The families of shared states a list is drawn from.
StateFamilies ==
  {ShapeStates}
    \cup {ValueStates(k, [j \in 1..k |-> 0]) : k \in 0..MaxLayers}
    \cup {ValueStates(k, [j \in 1..k |-> j]) : k \in 1..MaxLayers}

ParticipantCounts == 0..2

AggregationLrs == {1, 2}

InitAgg ==
  /\ InitStrategy
  /\ node_call = NoCall
  /\ gen = NoCall
  /\ algo = NoCall
  /\ \E family \in StateFamilies, n \in ParticipantCounts, aggregation_lr \in AggregationLrs :
       \E shared_states \in Seqs(family, n) :
         agg = [n |-> 0, shared_states |-> shared_states, aggregation_lr |-> aggregation_lr,
                given |-> shared_states, given_lr |-> aggregation_lr,
                result |-> [raised |-> "none", server_control_variate |-> << >>,
                            avg_weight_update |-> << >>]]

SpecAgg == InitAgg /\ [][Aggregate]_vars

\* ------------------------------------------------------- index generator
init_raised_samples_only(n_samples, batch_size) ==
  IF n_samples < 0 THEN "ValueError" ELSE "none"

\* BaseIndexGenerator.__init__: the error it raises, "none" when it returns.
\* batch_size is a set: {} is None, {b} is the size b.
init_raised(n_samples, batch_size) ==
  IF n_samples < 0 THEN "ValueError"
  ELSE IF batch_size = {} THEN "none"
  ELSE IF (CHOOSE b \in batch_size : TRUE) < 0 THEN "ValueError"
  ELSE "none"

init_batch_size_samples(n_samples, batch_size) == n_samples

init_batch_size_unclamped(n_samples, batch_size) ==
  IF batch_size = {} THEN n_samples ELSE CHOOSE b \in batch_size : TRUE

\* self._batch_size
init_batch_size(n_samples, batch_size) ==
  IF batch_size = {} THEN n_samples
  ELSE LET b == CHOOSE x \in batch_size : TRUE
       IN IF b > n_samples THEN n_samples ELSE b

init_counted(n_samples, batch_size, num_updates, shuffle, drop_last) ==
  [n_samples |-> n_samples,
   batch_size |-> init_batch_size(n_samples, batch_size),
   shuffle |-> shuffle,
   drop_last |-> drop_last,
   num_updates |-> num_updates,
   counter |-> 1,
   n_epoch_generated |-> 0]

init_positive_updates(n_samples, batch_size, num_updates, shuffle, drop_last) ==
  [n_samples |-> n_samples,
   batch_size |-> init_batch_size(n_samples, batch_size),
   shuffle |-> shuffle,
   drop_last |-> drop_last,
   num_updates |-> IF num_updates <= 0 THEN 1 ELSE num_updates,
   counter |-> 0,
   n_epoch_generated |-> 0]

\* The attributes __init__ leaves on the instance (the random source is in the
\* permutations the requests draw).
init(n_samples, batch_size, num_updates, shuffle, drop_last) ==
  [n_samples |-> n_samples,
   batch_size |-> init_batch_size(n_samples, batch_size),
   shuffle |-> shuffle,
   drop_last |-> drop_last,
   num_updates |-> num_updates,
   counter |-> 0,
   n_epoch_generated |-> 0]

reset_counter_kept(g) == g

\* reset_counter
reset_counter(g) == [g EXCEPT !.counter = 0]

\* The orders an epoch can draw the indices 0..n_samples-1 in: ascending
\* without shuffle, ascending or descending with it.
Ascending(n_samples) == [i \in 1..n_samples |-> i - 1]
Descending(n_samples) == [i \in 1..n_samples |-> n_samples - i]
EpochOrders(g) ==
  IF g.shuffle THEN {Ascending(g.n_samples), Descending(g.n_samples)}
  ELSE {Ascending(g.n_samples)}

\* A request opens a new epoch when nothing is left to draw, or when drop_last
\* is set and less than a batch is left.
epoch_exhausted(g) ==
  \/ g.to_draw = << >>
  \/ g.drop_last /\ Len(g.to_draw) < g.batch_size

\* __next__ of the concrete generator, on an instance that holds the indices
\* left to draw in to_draw; order is the order of the epoch it may open.
\* Returns the instance, what was raised and the batch.
next(g, order) ==
  IF g.counter = g.num_updates
  THEN [g |-> g, raised |-> "StopIteration", batch |-> << >>]
  ELSE LET opened == epoch_exhausted(g)
           to_draw == IF opened THEN order ELSE g.to_draw
           size == Min(g.batch_size, Len(to_draw))
       IN [g |-> [g EXCEPT !.to_draw = SubSeq(to_draw, size + 1, Len(to_draw)),
                           !.n_epoch_generated = IF opened THEN @ + 1 ELSE @,
                           !.counter = @ + 1],
           raised |-> "none",
           batch |-> SubSeq(to_draw, 1, size)]

\* The arguments generators are built with.
SampleCounts == {-1, 0, 3, 10}
BatchSizeArgs == {{}, {-1}, {0}, {2}, {3}, {4}}
UpdateCounts == {-1, 0, 1, 2, MaxUpdates}

\* NpIndexGenerator(n_samples, batch_size, num_updates, shuffle, drop_last)
Construct(n_samples, batch_size, num_updates, shuffle, drop_last) ==
  /\ gen.n = 0
  /\ LET raised == init_raised(n_samples, batch_size)
         g == init(n_samples, batch_size, num_updates, shuffle, drop_last)
     IN IF raised # "none"
        THEN gen' = [n |-> 1, op |-> "init", raised |-> raised,
                     args |-> <<n_samples, batch_size, num_updates, shuffle, drop_last>>]
        ELSE \E order \in EpochOrders(g) :
               gen' = [n |-> 1, op |-> "init", raised |-> "none",
                       args |-> <<n_samples, batch_size, num_updates, shuffle, drop_last>>,
                       g |-> [to_draw |-> order] @@ g,
                       pre |-> [to_draw |-> order] @@ g,
                       batches |-> << >>, yields |-> 0, stops |-> 0, resets |-> 0]
  /\ UNCHANGED <<tuples, next_op, strategy_vars, node_call, agg, algo>>

DoConstruct ==
  \E n_samples \in SampleCounts, batch_size \in BatchSizeArgs, num_updates \in UpdateCounts,
     shuffle \in BOOLEAN, drop_last \in BOOLEAN :
    Construct(n_samples, batch_size, num_updates, shuffle, drop_last)

Usable == gen.n >= 1 /\ gen.raised # "ValueError"

\* next(index_generator)
DoNext ==
  /\ Usable
  /\ gen.n < MaxRequests
  /\ \E order \in EpochOrders(gen.g) :
       LET r == next(gen.g, order)
       IN gen' = [gen EXCEPT
                    !.n = @ + 1, !.op = "next", !.raised = r.raised, !.g = r.g,
                    !.pre = gen.g,
                    !.batches = IF r.raised = "none" THEN Append(@, r.batch) ELSE @,
                    !.yields = IF r.raised = "none" THEN @ + 1 ELSE @,
                    !.stops = IF r.raised = "none" THEN @ ELSE @ + 1]
  /\ UNCHANGED <<tuples, next_op, strategy_vars, node_call, agg, algo>>

\* index_generator.reset_counter()
DoResetCounter ==
  /\ Usable
  /\ gen.n < MaxRequests
  /\ gen' = [gen EXCEPT !.n = @ + 1, !.op = "reset_counter", !.raised = "none",
                        !.g = reset_counter(@), !.pre = gen.g,
                        !.yields = 0, !.stops = 0, !.resets = @ + 1]
  /\ UNCHANGED <<tuples, next_op, strategy_vars, node_call, agg, algo>>

NextGen == DoConstruct \/ DoNext \/ DoResetCounter

SpecGen == Init /\ [][NextGen]_vars

\* ------------------------------------------------------------ Algo (algo_old)
\* Two model objects: the algorithm itself (Self) and a prior local model
\* (Prior).  weights gives the weights each one holds; a shared state is a
\* weights value.  events lists, in order, what a call did to the objects.
\* Objects, weights and data are numbers, all different from None.
Self == 1
Prior == 2
Models == {Self, Prior}
WeightValues == {11, 12}
SharedStates == {21, 22}
UpdatedValues == {31, 32}
TrainData == <<41, 42>>

\* preprocessing(x, y): the pair when y is given, x alone otherwise.
preprocessing(x, y) == IF y # None THEN <<x, y>> ELSE <<x>>

\* if head_model is None: head_model = self
head_model_or_self(head_model) == IF head_model = None THEN Self ELSE head_model

set_trunk_always(st, head_model, trunk_model) ==
  [weights |-> [st.weights EXCEPT ![head_model] = trunk_model],
   events |-> Append(st.events, <<"weights", head_model, trunk_model>>)]

\* if trunk_model is None: print(...)  else: head_model.weights = trunk_model
set_trunk(st, head_model, trunk_model) ==
  IF trunk_model = None THEN st
  ELSE [weights |-> [st.weights EXCEPT ![head_model] = trunk_model],
        events |-> Append(st.events, <<"weights", head_model, trunk_model>>)]

\* head_model.perform_update(X, y), the user's method: it runs on the weights
\* the model holds and leaves it with weights of its choice, updated.
perform_update(st, head_model, data, updated) ==
  [weights |-> [st.weights EXCEPT ![head_model] = updated],
   events |-> Append(st.events, <<"perform_update", head_model, st.weights[head_model], data>>)]

\* Algo.train: the objects after the call, what it did and what it returned.
train(weights, X, y, head_model, trunk_model, updated) ==
  LET local == head_model_or_self(head_model)
      set == set_trunk([weights |-> weights, events |-> << >>], local, trunk_model)
      done == perform_update(set, local, preprocessing(X, y), updated)
  IN [weights |-> done.weights, events |-> done.events, raised |-> "none",
      returned |-> <<local, done.weights[local]>>]

\* assert head_model is not None; assert trunk_model is not None
predict_asserts(head_model, trunk_model) == head_model = None \/ trunk_model = None

\* Algo.predict
predict(weights, X, head_model, trunk_model) ==
  IF predict_asserts(head_model, trunk_model)
  THEN [weights |-> weights, events |-> << >>, raised |-> "AssertionError",
        returned |-> << >>]
  ELSE LET set == set_trunk([weights |-> weights, events |-> << >>], head_model, trunk_model)
       IN [weights |-> set.weights,
           events |-> Append(set.events,
                             <<"test", head_model, set.weights[head_model],
                               preprocessing(X, None)>>),
           raised |-> "none",
           returned |-> <<"prediction", head_model, set.weights[head_model]>>]

\* An Algo and a prior local model, each with weights, and no call yet.
InitAlgo ==
  /\ InitStrategy
  /\ node_call = NoCall
  /\ agg = NoCall
  /\ gen = NoCall
  /\ \E weights \in [Models -> WeightValues] :
       algo = [n |-> 0, weights |-> weights, pre_weights |-> weights, op |-> "init",
               head_model |-> None, trunk_model |-> None,
               events |-> << >>, raised |-> "none", returned |-> << >>]

AlgoCall(op, head_model, trunk_model, r) ==
  /\ algo.n < MaxAlgoCalls
  /\ algo' = [n |-> algo.n + 1, weights |-> r.weights, pre_weights |-> algo.weights,
              op |-> op, head_model |-> head_model, trunk_model |-> trunk_model,
              events |-> r.events, raised |-> r.raised, returned |-> r.returned]
  /\ UNCHANGED <<tuples, next_op, strategy_vars, node_call, agg, gen>>

\* algo.train(X, y, head_model, trunk_model, rank)
DoTrain ==
  \E head_model \in {None} \cup Models, trunk_model \in {None} \cup SharedStates,
     updated \in UpdatedValues :
    AlgoCall("train", head_model, trunk_model,
             train(algo.weights, TrainData[1], TrainData[2], head_model, trunk_model, updated))

\* algo.predict(X, head_model, trunk_model)
DoAlgoPredict ==
  \E head_model \in {None} \cup Models, trunk_model \in {None} \cup SharedStates :
    AlgoCall("predict", head_model, trunk_model,
             predict(algo.weights, TrainData[1], head_model, trunk_model))

NextAlgo == DoTrain \/ DoAlgoPredict

SpecAlgo == InitAlgo /\ [][NextAlgo]_vars

\* ------------------------------------------------- reading the operation logs
\* The records a node's log gained in the most recent call.
NewRecords(p) == SubSeq(tuples[p], Len(last.pre_tuples[p]) + 1, Len(tuples[p]))
NewAggRecords == SubSeq(agg_tuples, Len(last.pre_agg_tuples) + 1, Len(agg_tuples))
NewTestRecords(e) == SubSeq(test_tuples[e], Len(last.pre_test_tuples[e]) + 1, Len(test_tuples[e]))

\* The ids of the train operations a call issued on participant p.
TrainIdsOf(p, call) ==
  {tuples[p][j].composite_traintuple_id : j \in
     {h \in 1..Len(tuples[p]) :
        /\ tuples[p][h].algo_key = "train"
        /\ meta[tuples[p][h].composite_traintuple_id].call = call}}

\* The ids of the aggregation operations a call issued.
AggIdsOf(call) ==
  {agg_tuples[j].aggregatetuple_id : j \in
     {h \in 1..Len(agg_tuples) : meta[agg_tuples[h].aggregatetuple_id].call = call}}

AggIds == {agg_tuples[j].aggregatetuple_id : j \in 1..Len(agg_tuples)}

\* Every operation id on the logs as they were before the most recent call.
PreIds ==
  UNION {{last.pre_tuples[p][j].composite_traintuple_id : j \in 1..Len(last.pre_tuples[p])}
           : p \in TrainNodes}
    \cup {last.pre_agg_tuples[j].aggregatetuple_id : j \in 1..Len(last.pre_agg_tuples)}

IsPrefix(s, t) == Len(s) <= Len(t) /\ SubSeq(t, 1, Len(s)) = s

RoundOk == last.op = "perform_round" /\ last.outcome = "ok"

\* ---------------------------------------------------------------- claims
\* C1: in a successful perform_round made with the participant list of the
\* previous successful round, the train operation of every participant takes
\* as local state the ref of that participant's own train operation of the
\* previous round; in the first round it takes none.
C1_LocalStateThreaded ==
  RoundOk =>
    \A i \in 1..Len(last.train_data_nodes) :
      LET p == last.train_data_nodes[i]
          rec == NewRecords(p)[1]
      IN /\ Len(NewRecords(p)) = 1
         /\ last.pre_done_call = 0 => rec.in_head_model_id = None
         /\ (last.pre_done_call > 0 /\ last.pre_done_nodes = last.train_data_nodes) =>
              {rec.in_head_model_id} = TrainIdsOf(p, last.pre_done_call)

C1_Witness ==
  /\ RoundOk
  /\ last.pre_done_call > 0
  /\ last.train_data_nodes = <<"B", "A">>
  /\ last.pre_done_nodes = last.train_data_nodes
  /\ NewRecords("A")[1].in_head_model_id # NewRecords("B")[1].in_head_model_id

\* C2: when the aggregation node rejects the aggregation of a round, the stored
\* local-state list and the stored shared-state ref are both what they were
\* before the call.
C2_RejectedRoundKeepsState ==
  (last.op = "perform_round" /\ last.outcome = "rejected") =>
    /\ local_states = last.pre_local_states
    /\ avg_shared_state = last.pre_avg

C2_Witness ==
  /\ last.op = "perform_round" /\ last.outcome = "rejected"
  /\ Len(last.train_data_nodes) = 2
  /\ ~last.pre_local_states.isNone
  /\ tuples # last.pre_tuples

\* C3 as stated: a perform_round whose round_idx was already completed appends
\* no operation to any log.
C3_RetryAppendsNothing ==
  (last.op = "perform_round" /\ last.round_idx \in last.pre_done_idxs) =>
    /\ tuples = last.pre_tuples
    /\ agg_tuples = last.pre_agg_tuples

\* C3 amended: a perform_round whose round_idx was already completed keeps every
\* earlier record where it was, and when it succeeds appends one train
\* operation per participant and one aggregation, all with ids no log held.
C3_RetryAppendsFreshOperations ==
  (last.op = "perform_round" /\ last.round_idx \in last.pre_done_idxs) =>
    /\ \A p \in TrainNodes : IsPrefix(last.pre_tuples[p], tuples[p])
    /\ IsPrefix(last.pre_agg_tuples, agg_tuples)
    /\ \A p \in TrainNodes : \A j \in 1..Len(NewRecords(p)) :
         NewRecords(p)[j].composite_traintuple_id \notin PreIds
    /\ \A j \in 1..Len(NewAggRecords) : NewAggRecords[j].aggregatetuple_id \notin PreIds
    /\ last.outcome = "ok" =>
         /\ \A p \in TrainNodes :
              Len(NewRecords(p)) =
                Cardinality({i \in 1..Len(last.train_data_nodes) : last.train_data_nodes[i] = p})
         /\ Len(NewAggRecords) = 1

C3_Witness ==
  /\ RoundOk
  /\ last.round_idx \in last.pre_done_idxs
  /\ Len(last.train_data_nodes) = 2
  /\ Len(last.pre_tuples["A"]) > 0
  /\ Len(NewRecords("A")) = 1

\* C4: every train operation of one perform_round takes the same shared state,
\* the stored aggregate ref as it was when the call started: none before a
\* round has completed, the aggregation output of the last completed round
\* afterwards.
C4_SharedStateInput ==
  last.op = "perform_round" =>
    /\ \A p \in TrainNodes : \A j \in 1..Len(NewRecords(p)) :
         NewRecords(p)[j].in_trunk_model_id = last.pre_avg
    /\ last.pre_done_call = 0 => last.pre_avg = None
    /\ last.pre_done_call > 0 => {last.pre_avg} = AggIdsOf(last.pre_done_call)

C4_Witness ==
  /\ last.op = "perform_round"
  /\ last.pre_done_call > 0
  /\ Len(NewRecords("A")) = 1 /\ Len(NewRecords("B")) = 1
  /\ NewRecords("A")[1].in_trunk_model_id = NewRecords("B")[1].in_trunk_model_id
  /\ NewRecords("A")[1].in_trunk_model_id # None

\* C5: a successful perform_round appends exactly one aggregation operation; it
\* is issued after the round's train operations and its input is the list of
\* their shared-state refs, one per participant in participant order.
C5_OneAggregationOverTrainOutputs ==
  RoundOk =>
    /\ Len(NewAggRecords) = 1
    /\ Len(NewAggRecords[1].in_models_ids) = Len(last.train_data_nodes)
    /\ \A i \in 1..Len(last.train_data_nodes) :
         LET rec == NewRecords(last.train_data_nodes[i])[1]
         IN /\ rec.algo_key = "train"
            /\ NewAggRecords[1].in_models_ids[i] = rec.composite_traintuple_id
            /\ NewAggRecords[1].aggregatetuple_id > rec.composite_traintuple_id

C5_Witness ==
  /\ RoundOk
  /\ last.train_data_nodes = <<"B", "A">>
  /\ Len(NewAggRecords) = 1
  /\ Len(NewAggRecords[1].in_models_ids) = 2

\* C6: before a round has completed the stored local-state list and shared-state
\* ref are absent; after a successful perform_round the list holds the refs of
\* that round's train operations in participant order and the shared-state ref
\* is the ref of that round's aggregation.
C6_StoredStateAfterRound ==
  /\ done_call = 0 => (local_states.isNone /\ avg_shared_state = None)
  /\ RoundOk =>
       /\ ~local_states.isNone
       /\ Len(local_states.refs) = Len(last.train_data_nodes)
       /\ \A i \in 1..Len(last.train_data_nodes) :
            local_states.refs[i] =
              NewRecords(last.train_data_nodes[i])[1].composite_traintuple_id
       /\ Len(NewAggRecords) = 1
       /\ avg_shared_state = NewAggRecords[1].aggregatetuple_id

C6_Witness ==
  /\ RoundOk
  /\ last.pre_done_call > 0
  /\ Len(last.train_data_nodes) = 2
  /\ local_states # last.pre_local_states
  /\ avg_shared_state # last.pre_avg

\* C7 as stated: whatever lists the caller passes, the local-state input of
\* every operation on participant p's log is absent or the id of an earlier
\* operation of p's own log.
C7_OwnLocalStateOnly ==
  \A p \in TrainNodes : \A j \in 1..Len(tuples[p]) :
    \/ tuples[p][j].in_head_model_id = None
    \/ \E h \in 1..(j - 1) :
         tuples[p][h].composite_traintuple_id = tuples[p][j].in_head_model_id

\* The round of an operation: the number of rounds completed when a
\* perform_round issued it, the last completed round when a predict issued it.
RoundOf(op_id) == meta[op_id].round

\* C8 as stated: an operation that takes a shared-state ref produced in round r
\* is an operation of round r + 1 or a predict operation of round r.
C8_SharedRefNextRoundOnly ==
  /\ \A p \in TrainNodes : \A j \in 1..Len(tuples[p]) :
       LET rec == tuples[p][j]
       IN rec.in_trunk_model_id # None =>
            \/ RoundOf(rec.composite_traintuple_id) = RoundOf(rec.in_trunk_model_id) + 1
            \/ /\ rec.algo_key = "predict"
               /\ RoundOf(rec.composite_traintuple_id) = RoundOf(rec.in_trunk_model_id)
  /\ \A j \in 1..Len(agg_tuples) : \A i \in 1..Len(agg_tuples[j].in_models_ids) :
       RoundOf(agg_tuples[j].aggregatetuple_id) = RoundOf(agg_tuples[j].in_models_ids[i]) + 1

\* C8 amended: the ref produced by the aggregation of round r is taken only by
\* train operations of round r + 1 and by predict operations of round r; the
\* refs produced by the train operations of a round are taken only by the
\* aggregation of the same perform_round call.
C8_AggregateRefNextRoundOnly ==
  /\ \A p \in TrainNodes : \A j \in 1..Len(tuples[p]) :
       LET rec == tuples[p][j]
       IN rec.in_trunk_model_id # None =>
            /\ rec.in_trunk_model_id \in AggIds
            /\ \/ /\ rec.algo_key = "train"
                  /\ RoundOf(rec.composite_traintuple_id) = RoundOf(rec.in_trunk_model_id) + 1
               \/ /\ rec.algo_key = "predict"
                  /\ RoundOf(rec.composite_traintuple_id) = RoundOf(rec.in_trunk_model_id)
  /\ \A j \in 1..Len(agg_tuples) : \A i \in 1..Len(agg_tuples[j].in_models_ids) :
       LET x == agg_tuples[j].in_models_ids[i]
       IN /\ x \notin AggIds
          /\ meta[x].call = meta[agg_tuples[j].aggregatetuple_id].call
          /\ RoundOf(x) = RoundOf(agg_tuples[j].aggregatetuple_id)

C8_Witness ==
  /\ completed = 2
  /\ \E j \in 1..Len(tuples["A"]) :
       /\ tuples["A"][j].algo_key = "predict"
       /\ tuples["A"][j].in_trunk_model_id \in AggIds
  /\ \E j \in 1..Len(tuples["A"]) :
       /\ tuples["A"][j].algo_key = "train"
       /\ tuples["A"][j].in_trunk_model_id \in AggIds

PredictBeforeRound == last.op = "predict" /\ last.pre_done_call = 0

LogsUntouched ==
  /\ tuples = last.pre_tuples
  /\ agg_tuples = last.pre_agg_tuples
  /\ test_tuples = last.pre_test_tuples

\* Whether the participant list holds a node with the evaluation node's node_id.
Matched(train_data_nodes, test_node) ==
  \E j \in 1..Len(train_data_nodes) : NodeId[train_data_nodes[j]] = NodeId[test_node]

\* C9 as stated: predict before any completed round fails with the precondition
\* violation whatever the arguments, and records nothing.
C9_PredictBeforeRoundAsserts ==
  PredictBeforeRound => (last.outcome = "AssertionError" /\ LogsUntouched)

\* C9 amended: predict before any completed round records nothing; with an empty
\* list of evaluation nodes it returns normally, otherwise it fails at the
\* first evaluation node: with the precondition violation when that node's
\* identity is a participant's, with the not-implemented error when it is not.
C9_PredictBeforeRoundFailsAtFirstNode ==
  PredictBeforeRound =>
    /\ LogsUntouched
    /\ last.test_data_nodes = << >> => last.outcome = "ok"
    /\ last.test_data_nodes # << >> =>
         /\ last.fail_at = 1
         /\ last.outcome =
              IF Matched(last.train_data_nodes, last.test_data_nodes[1])
              THEN "AssertionError" ELSE "NotImplementedError"

C9_Witness ==
  /\ PredictBeforeRound
  /\ last.test_data_nodes = <<"E1", "E3">>
  /\ last.outcome = "AssertionError"

\* The evaluation nodes of the most recent predict that match no participant.
Unmatched ==
  {k \in 1..Len(last.test_data_nodes) :
     ~Matched(last.train_data_nodes, last.test_data_nodes[k])}

\* C10 as stated: predict given an evaluation node that matches no participant
\* fails with the not-implemented error and records nothing for that node.
C10_UnmatchedNodeNotImplemented ==
  (last.op = "predict" /\ Unmatched # {}) =>
    /\ last.outcome = "NotImplementedError"
    /\ \A k \in Unmatched :
         test_tuples[last.test_data_nodes[k]] = last.pre_test_tuples[last.test_data_nodes[k]]

\* C10 amended: predict given an evaluation node that matches no participant
\* never succeeds and records nothing for that node; it fails with the
\* not-implemented error at the first such node unless an earlier evaluation
\* node has already failed, with the precondition violation (no round
\* completed) or with an index error (stored list shorter than the
\* participant's position).
C10_UnmatchedNodeStopsPredict ==
  (last.op = "predict" /\ Unmatched # {}) =>
    LET k == CHOOSE u \in Unmatched : \A v \in Unmatched : u <= v
    IN /\ last.outcome # "ok"
       /\ \A u \in Unmatched :
            test_tuples[last.test_data_nodes[u]] = last.pre_test_tuples[last.test_data_nodes[u]]
       /\ \/ last.outcome = "NotImplementedError" /\ last.fail_at = k
          \/ /\ last.fail_at < k
             /\ \/ last.outcome = "AssertionError" /\ last.pre_local_states.isNone
                \/ /\ last.outcome = "IndexError"
                   /\ Len(last.pre_local_states.refs) < Len(last.train_data_nodes)

C10_Witness ==
  /\ last.op = "predict"
  /\ last.test_data_nodes = <<"E1", "E3">>
  /\ last.outcome = "NotImplementedError"
  /\ last.fail_at = 2
  /\ Len(NewTestRecords("E1")) = 1
  /\ Len(NewTestRecords("E3")) = 0

\* The participant of the most recent call's list that shares an evaluation
\* node's identity (the first one).
ParticipantOf(test_node) ==
  last.train_data_nodes[
    CHOOSE j \in 1..Len(last.train_data_nodes) :
      /\ NodeId[last.train_data_nodes[j]] = NodeId[test_node]
      /\ \A h \in 1..(j - 1) : NodeId[last.train_data_nodes[h]] # NodeId[test_node]]

\* C11 as stated: for every evaluation node of a successful predict, a forward
\* operation is recorded on the participant sharing its identity, taking that
\* participant's own current local-state ref (the one its train operation of
\* the last completed round returned) and the current aggregate ref, and the
\* evaluation node's log gains a test operation consuming the forward
\* operation's id.
C11_ForwardOnOwnStateThenTest ==
  (last.op = "predict" /\ last.outcome = "ok") =>
    \A k \in 1..Len(last.test_data_nodes) :
      LET e == last.test_data_nodes[k]
          p == ParticipantOf(e)
          fwd_id == last.pre_next_op + k - 1
      IN /\ \E j \in 1..Len(NewRecords(p)) :
              /\ NewRecords(p)[j].composite_traintuple_id = fwd_id
              /\ NewRecords(p)[j].algo_key = "predict"
              /\ NewRecords(p)[j].in_trunk_model_id = last.pre_avg
              /\ NewRecords(p)[j].in_head_model_id \in TrainIdsOf(p, last.pre_done_call)
         /\ \E j \in 1..Len(NewTestRecords(e)) :
              NewTestRecords(e)[j].traintuple_id = fwd_id

ComputeCalled == node_call.n > 0

\* C12: a call of compute appends exactly one record at the end of the node's
\* own log, leaves the earlier records of that log and every other node's log
\* as they were, and returns a LocalStateRef and a SharedStateRef that both
\* carry the id of the record appended.
C12_ComputeAppendsOneRecord ==
  ComputeCalled =>
    LET p == node_call.node
    IN /\ Len(tuples[p]) = Len(node_call.pre_tuples[p]) + 1
       /\ IsPrefix(node_call.pre_tuples[p], tuples[p])
       /\ \A q \in TrainNodes \ {p} : tuples[q] = node_call.pre_tuples[q]
       /\ agg_tuples = << >>
       /\ \A e \in TestNodes : test_tuples[e] = << >>
       /\ node_call.returned[1] = tuples[p][Len(tuples[p])].composite_traintuple_id
       /\ node_call.returned[2] = tuples[p][Len(tuples[p])].composite_traintuple_id

C12_Witness ==
  /\ node_call.n = 2
  /\ node_call.node = "A"
  /\ Len(tuples["A"]) = 2
  /\ node_call.returned = <<2, 2>>

\* C13: the record compute appends carries the sample keys the caller passed,
\* or the node's own list of sample keys when it passed none, and the node's
\* data manager key; its local-state and shared-state inputs are the keys of
\* the refs passed, each absent exactly when no ref was passed.
C13_ComputeRecordContents ==
  ComputeCalled =>
    LET p == node_call.node
        rec == tuples[p][Len(tuples[p])]
    IN /\ node_call.data_sample_keys = {} =>
            rec.train_data_sample_keys = DataSampleKeys[p]
       /\ \A k \in node_call.data_sample_keys : rec.train_data_sample_keys = k
       /\ rec.data_manager_key = DataManagerKey[p]
       /\ rec.in_head_model_id = node_call.local_state
       /\ rec.in_trunk_model_id = node_call.shared_state
       /\ (rec.in_head_model_id = None) <=> (node_call.local_state = None)
       /\ (rec.in_trunk_model_id = None) <=> (node_call.shared_state = None)

C13_Witness ==
  /\ ComputeCalled
  /\ node_call.data_sample_keys = {<< >>}
  /\ node_call.local_state = None
  /\ node_call.shared_state = 1
  /\ tuples[node_call.node][Len(tuples[node_call.node])].train_data_sample_keys = << >>

\* ------------------------------------------------------ aggregation claims
Aggregated == agg.n >= 1
Participants == 1..Len(agg.given)
TotalSamples == SumSamples(agg.given)
NoAveragedState ==
  /\ agg.result.raised # "none"
  /\ agg.result.server_control_variate = << >>
  /\ agg.result.avg_weight_update = << >>

\* Two numbers numpy computed are the same number (nan when a denominator is 0).
FSame(a, b) ==
  IF a[2] = 0 \/ b[2] = 0 THEN a[2] = 0 /\ b[2] = 0 ELSE a[1] * b[2] = b[1] * a[2]

\* Sum over the participants of n_samples times the layer of the named list.
RECURSIVE SampleWeighted(_, _, _)
SampleWeighted(shared_states, field, layer_idx) ==
  IF shared_states = << >> THEN 0
  ELSE shared_states[1].n_samples * shared_states[1][field][layer_idx]
         + SampleWeighted(Tail(shared_states), field, layer_idx)

\* C14: when the server control variates of two participants differ, in any
\* layer, the aggregation fails and produces no averaged state.
C14_DifferingServerControlVariateFails ==
  (/\ Aggregated
   /\ \E i \in Participants, j \in Participants :
        agg.given[i].server_control_variate # agg.given[j].server_control_variate)
    => NoAveragedState

\* Two participants whose lists all have two layers and whose server control
\* variates agree in the first layer and differ in the second.
C14_Witness ==
  /\ Aggregated
  /\ Len(agg.given) = 2
  /\ \A i \in Participants :
       /\ Len(agg.given[i].control_variate_update) = 2
       /\ Len(agg.given[i].weight_update) = 2
       /\ Len(agg.given[i].server_control_variate) = 2
  /\ agg.given[1].server_control_variate[1] = agg.given[2].server_control_variate[1]
  /\ agg.given[1].server_control_variate[2] # agg.given[2].server_control_variate[2]
  /\ agg.result.raised = "all server_control_variate in the shared_states are not equal"

\* The condition of C15 on a list of shared states.
Acceptable(shared_states) ==
  /\ shared_states # << >>
  /\ \E l \in 0..(MaxLayers + 1) :
       \A i \in 1..Len(shared_states) :
         /\ Len(shared_states[i].control_variate_update) = l
         /\ Len(shared_states[i].weight_update) = l
         /\ Len(shared_states[i].server_control_variate) = l
  /\ \A i \in 1..Len(shared_states), j \in 1..Len(shared_states) :
       \A k \in DOMAIN shared_states[i].server_control_variate :
         k \in DOMAIN shared_states[j].server_control_variate
           => shared_states[i].server_control_variate[k]
                = shared_states[j].server_control_variate[k]

\* C15: the precondition check accepts exactly the non-empty lists in which the
\* three lists of every participant have one common length and the server
\* control variates are layer-wise equal; any other list fails, with no
\* averaged state.
C15_CheckAcceptsExactly ==
  Aggregated =>
    /\ (agg.result.raised = "none") <=> Acceptable(agg.given)
    /\ ~Acceptable(agg.given) => NoAveragedState

\* Every participant agrees with the first one, and the weight updates have
\* another length than the control variates: the last assertion fails.
C15_Witness ==
  /\ Aggregated
  /\ Len(agg.given) = 2
  /\ \A i \in Participants :
       /\ Len(agg.given[i].control_variate_update) = 2
       /\ Len(agg.given[i].server_control_variate) = 2
       /\ Len(agg.given[i].weight_update) = 1
  /\ agg.given[1].server_control_variate = agg.given[2].server_control_variate
  /\ agg.result.raised # "none"

\* C16: layer k of the averaged weight update is the aggregation learning rate
\* times the sum of (n_i / total) * weight_update_i[k]; counts 10 and 30 with
\* single-layer updates 1.0 and 2.0 and learning rate 1 give 1.75; with a
\* positive total the participant weights are non-negative and sum to 1.
C16_AveragedWeightUpdate ==
  (Aggregated /\ agg.result.raised = "none" /\ TotalSamples > 0) =>
    /\ Len(agg.result.avg_weight_update) = Len(agg.given[1].weight_update)
    /\ \A k \in DOMAIN agg.result.avg_weight_update :
         /\ agg.result.avg_weight_update[k][2] # 0
         /\ FSame(agg.result.avg_weight_update[k],
                  <<agg.given_lr * SampleWeighted(agg.given, "weight_update", k),
                    TotalSamples>>)
    /\ \A i \in Participants :
         /\ client_weight(agg.given)[i][1] >= 0
         /\ client_weight(agg.given)[i][2] > 0
    /\ FSame(FSum(client_weight(agg.given)), Frac(1))
    /\ (/\ Len(agg.given) = 2
        /\ agg.given[1].n_samples = 10 /\ agg.given[1].weight_update = <<1>>
        /\ agg.given[2].n_samples = 30 /\ agg.given[2].weight_update = <<2>>
        /\ agg.given_lr = 1)
         => FSame(agg.result.avg_weight_update[1], <<7, 4>>)

\* The example of the claim, aggregated.
C16_Witness ==
  /\ Aggregated
  /\ agg.result.raised = "none"
  /\ Len(agg.given) = 2
  /\ agg.given[1].n_samples = 10 /\ agg.given[1].weight_update = <<1>>
  /\ agg.given[2].n_samples = 30 /\ agg.given[2].weight_update = <<2>>
  /\ agg.given_lr = 1
  /\ FSame(agg.result.avg_weight_update[1], <<7, 4>>)

\* C17: layer k of the new server control variate is the incoming one plus the
\* sum of (n_i / total) * control_variate_update_i[k], whatever the aggregation
\* learning rate is.
C17_ServerControlVariateUpdate ==
  (Aggregated /\ agg.result.raised = "none") =>
    /\ Len(agg.result.server_control_variate) = Len(agg.given[1].control_variate_update)
    /\ \A k \in DOMAIN agg.result.server_control_variate :
         FSame(agg.result.server_control_variate[k],
               <<agg.given[1].server_control_variate[k] * TotalSamples
                   + SampleWeighted(agg.given, "control_variate_update", k),
                 TotalSamples>>)

\* Learning rate 2, counts 10 and 30, incoming variate 1 and updates 0 and 1 in
\* the first layer: the new variate is 1 + 30/40.
C17_Witness ==
  /\ Aggregated
  /\ agg.result.raised = "none"
  /\ agg.given_lr = 2
  /\ Len(agg.given) = 2
  /\ agg.given[1].n_samples = 10 /\ agg.given[2].n_samples = 30
  /\ Len(agg.given[1].control_variate_update) >= 1
  /\ agg.given[1].server_control_variate[1] = 1
  /\ agg.given[1].control_variate_update[1] = 0
  /\ agg.given[2].control_variate_update[1] = 1
  /\ FSame(agg.result.server_control_variate[1], <<7, 4>>)

IndicesInRange ==
  \A b \in DOMAIN gen.batches : \A i \in DOMAIN gen.batches[b] :
    gen.batches[b][i] >= 0 /\ gen.batches[b][i] < gen.g.n_samples

\* C19: a generator built with valid arguments yields exactly num_updates
\* batches after its construction or a reset, signals exhaustion on every
\* request after them until it is reset, and yields indices of
\* [0, n_samples) only.
C19_YieldsNumUpdatesBatches ==
  (Usable /\ gen.g.num_updates >= 1) =>
    /\ gen.yields <= gen.g.num_updates
    /\ gen.stops > 0 => gen.yields = gen.g.num_updates
    /\ IndicesInRange

\* num_updates = 2 over three samples: two batches, then exhaustion twice.
C19_Witness ==
  /\ Usable
  /\ gen.g.num_updates = 2
  /\ gen.g.n_samples = 3
  /\ gen.g.batch_size = 2
  /\ gen.yields = 2
  /\ gen.stops = 2
  /\ gen.op = "next" /\ gen.raised = "StopIteration"

\* A generator of the example of C20.
SequentialTenByThree ==
  /\ Usable
  /\ gen.args[1] = 10 /\ gen.args[2] = {3}
  /\ gen.args[4] = FALSE /\ gen.args[5] = FALSE

Constructed == gen.n >= 1
\* The arguments are those C21 says construction fails on.
InvalidSizes == gen.args[1] < 0 \/ \E b \in gen.args[2] : b < 0

\* C21: construction fails with ValueError and leaves no instance when
\* n_samples < 0 or a given batch_size < 0, and does not fail otherwise.
C21_InvalidSizesRejected ==
  Constructed =>
    /\ InvalidSizes => gen.raised = "ValueError" /\ "g" \notin DOMAIN gen
    /\ ~InvalidSizes => gen.raised # "ValueError" /\ "g" \in DOMAIN gen

\* Three samples and a batch size of -1: rejected on the batch size alone.
C21_Witness ==
  /\ Constructed
  /\ gen.args[1] = 3
  /\ gen.args[2] = {-1}
  /\ gen.raised = "ValueError"
  /\ "g" \notin DOMAIN gen

\* C22 as claimed: construction with num_updates <= 0 raises an error.
C22_NonPositiveUpdatesRejected ==
  (Constructed /\ gen.args[3] <= 0) => gen.raised = "ValueError"

\* C22, amended: construction with num_updates <= 0 fails exactly when
\* n_samples or batch_size is negative; otherwise it returns an instance that
\* stores num_updates as given.
C22_NonPositiveUpdatesAccepted ==
  (Constructed /\ gen.args[3] <= 0) =>
    /\ gen.raised = "ValueError" <=> InvalidSizes
    /\ ~InvalidSizes => gen.g.num_updates = gen.args[3]

\* A generator constructed with num_updates = 0, just after construction.
C22_Witness ==
  /\ Constructed
  /\ gen.op = "init"
  /\ gen.raised = "none"
  /\ gen.args[3] = 0
  /\ gen.g.num_updates = 0

\* C27: after a successful construction 0 <= batch_size <= n_samples;
\* batch_size is n_samples when it was unset or larger than n_samples and the
\* given value otherwise, 0 included.
C27_BatchSizeClamped ==
  Usable =>
    /\ 0 <= gen.g.batch_size
    /\ gen.g.batch_size <= gen.g.n_samples
    /\ gen.g.n_samples = gen.args[1]
    /\ gen.args[2] = {} => gen.g.batch_size = gen.args[1]
    /\ \A b \in gen.args[2] :
         gen.g.batch_size = IF b > gen.args[1] THEN gen.args[1] ELSE b

\* A batch size of 4 over three samples, clamped to 3.
C27_Witness ==
  /\ Usable
  /\ gen.args[1] = 3
  /\ gen.args[2] = {4}
  /\ gen.g.batch_size = 3

\* The indices yielded so far, batch after batch.
RECURSIVE Flatten(_)
Flatten(batches) ==
  IF batches = << >> THEN << >> ELSE batches[1] \o Flatten(Tail(batches))

\* C23: reset_counter sets the counter to 0 and changes nothing else of the
\* instance (epoch counter, sizes, num_updates, settings, indices left to
\* draw); a reset generator yields exactly num_updates batches again before
\* it signals exhaustion, and it goes on from the position it had reached:
\* without shuffle and drop_last the indices yielded since construction are
\* 0, 1, ..., n_samples-1, 0, 1, ... whatever resets happened in between.
C23_ResetCounterOnlyResetsCounter ==
  Usable =>
    /\ gen.op = "reset_counter" =>
         /\ gen.g.counter = 0
         /\ gen.g = [gen.pre EXCEPT !.counter = 0]
    /\ (gen.resets >= 1 /\ gen.g.num_updates >= 1) =>
         /\ gen.yields <= gen.g.num_updates
         /\ gen.stops > 0 => gen.yields = gen.g.num_updates
    /\ (~gen.g.shuffle /\ ~gen.g.drop_last /\ gen.g.n_samples > 0) =>
         \A i \in DOMAIN Flatten(gen.batches) :
           Flatten(gen.batches)[i] = (i - 1) % gen.g.n_samples

\* One update per pass over three samples by two: exhausted, reset, then the
\* batch [2] and exhaustion again.
C23_Witness ==
  /\ Usable
  /\ gen.resets = 1
  /\ gen.g.num_updates = 1
  /\ ~gen.g.shuffle /\ ~gen.g.drop_last
  /\ gen.batches = << <<0, 1>>, <<2>> >>
  /\ gen.yields = 1
  /\ gen.stops = 1
  /\ gen.g.n_epoch_generated = 0

\* ------------------------------------------------ claims on the whole graph
\* The records of the participant logs, with the node that holds each.
Recorded == {<<p, j>> \in TrainNodes \X (1..(next_op - 1)) : j <= Len(tuples[p])}
RecordAt(pj) == tuples[pj[1]][pj[2]]
\* The train operations whose shared-state ref an aggregation took: those of
\* the perform_round calls that completed.
AggregatedIds ==
  UNION {{agg_tuples[j].in_models_ids[i] : i \in 1..Len(agg_tuples[j].in_models_ids)}
           : j \in 1..Len(agg_tuples)}
\* The records that take the LocalStateRef of operation x as local state.
LocalConsumers(x) == {pj \in Recorded : RecordAt(pj).in_head_model_id = x}

\* C24 as claimed: the LocalStateRef an operation recorded for participant p
\* produced is taken as local-state input by at most one operation, the next
\* one on p's log.
C24_LocalRefConsumedOnceByNext ==
  \A pj \in Recorded :
    \A c \in LocalConsumers(RecordAt(pj).composite_traintuple_id) :
      /\ c = <<pj[1], pj[2] + 1>>
      /\ Cardinality(LocalConsumers(RecordAt(pj).composite_traintuple_id)) <= 1

\* C24, amended: a LocalStateRef is taken as local-state input only if a train
\* operation of a completed perform_round call produced it, and only by
\* operations recorded later; at most one train operation of a completed
\* perform_round call takes it.  Predict operations and train operations of
\* perform_round calls that fail take the same ref again.
C24_LocalRefConsumedOncePerCompletedRound ==
  \A pj \in Recorded :
    LET x == RecordAt(pj).composite_traintuple_id
        takers == LocalConsumers(x)
    IN /\ takers # {} => RecordAt(pj).algo_key = "train" /\ x \in AggregatedIds
       /\ \A c \in takers : RecordAt(c).composite_traintuple_id > x
       /\ Cardinality({c \in takers :
                         /\ RecordAt(c).algo_key = "train"
                         /\ RecordAt(c).composite_traintuple_id \in AggregatedIds}) <= 1

\* A ref taken by a predict operation and by the train operation of the next
\* completed round.
C24_Witness ==
  \E pj \in Recorded :
    LET takers == LocalConsumers(RecordAt(pj).composite_traintuple_id)
    IN /\ \E c \in takers : RecordAt(c).algo_key = "predict"
       /\ \E c \in takers :
            /\ RecordAt(c).algo_key = "train"
            /\ RecordAt(c).composite_traintuple_id \in AggregatedIds

\* The train operations on the participant logs.
TrainRecorded == {pj \in Recorded : RecordAt(pj).algo_key = "train"}
\* The places of the aggregation logs that take the ref of operation x.
SharedConsumers(x) ==
  {ji \in (1..Len(agg_tuples)) \X (1..(next_op - 1)) :
     /\ ji[2] <= Len(agg_tuples[ji[1]].in_models_ids)
     /\ agg_tuples[ji[1]].in_models_ids[ji[2]] = x}
\* Nothing but an aggregation of the same call takes the ref of operation x.
SharedRefOnlyAggregated(x) ==
  /\ \A ji \in SharedConsumers(x) :
       meta[agg_tuples[ji[1]].aggregatetuple_id].call = meta[x].call
  /\ \A c \in Recorded : RecordAt(c).in_trunk_model_id # x
  /\ avg_shared_state # x

\* C25 as claimed: the SharedStateRef of every train operation is taken
\* exactly once, by the aggregation of the same perform_round call, and by
\* nothing else.
C25_SharedRefConsumedExactlyOnce ==
  \A pj \in TrainRecorded :
    LET x == RecordAt(pj).composite_traintuple_id
    IN Cardinality(SharedConsumers(x)) = 1 /\ SharedRefOnlyAggregated(x)

\* C25, amended: the SharedStateRef of a train operation is taken at most
\* once, by the aggregation of the same perform_round call and by nothing
\* else: exactly once when that call completed, never when it failed.
C25_SharedRefConsumedOnceIfCompleted ==
  \A pj \in TrainRecorded :
    LET x == RecordAt(pj).composite_traintuple_id
    IN /\ Cardinality(SharedConsumers(x)) <= 1
       /\ AggIdsOf(meta[x].call) # {} <=> Cardinality(SharedConsumers(x)) = 1
       /\ SharedRefOnlyAggregated(x)

\* A completed round of two participants and a train operation of a failed
\* call, whose ref nothing takes.
C25_Witness ==
  /\ \E j \in 1..Len(agg_tuples) : Len(agg_tuples[j].in_models_ids) = 2
  /\ \E pj \in TrainRecorded :
       SharedConsumers(RecordAt(pj).composite_traintuple_id) = {}

RecordsOf(x) == {pj \in Recorded : RecordAt(pj).composite_traintuple_id = x}

\* C28: no two records of any logs share an operation id, and each ref pair a
\* compute call returned carries the id of exactly one record.
C28_OperationIdsFresh ==
  /\ \A pj \in Recorded : RecordsOf(RecordAt(pj).composite_traintuple_id) = {pj}
  /\ ComputeCalled =>
       \A ref \in node_call.refs :
         /\ ref[1] = ref[2]
         /\ Cardinality(RecordsOf(ref[1])) = 1

\* Two calls on two nodes: two refs, one record each.
C28_Witness ==
  /\ node_call.n = 2
  /\ Len(tuples["A"]) = 1
  /\ Len(tuples["B"]) = 1
  /\ Cardinality(node_call.refs) = 2

\* The references operation x takes as input: the local-state and the
\* shared-state ref of a participant's operation, the shared states of an
\* aggregation.
InputsOf(x) ==
  IF x \in AggIds
  THEN LET rec == agg_tuples[CHOOSE j \in 1..Len(agg_tuples) :
                               agg_tuples[j].aggregatetuple_id = x]
       IN {rec.in_models_ids[i] : i \in 1..Len(rec.in_models_ids)}
  ELSE LET rec == RecordAt(CHOOSE pj \in Recorded :
                             RecordAt(pj).composite_traintuple_id = x)
       IN {rec.in_head_model_id, rec.in_trunk_model_id} \ {None}

Max(S) == CHOOSE m \in S : \A n \in S : n <= m

\* The rank of operation x in the dependency graph.
RECURSIVE Rank(_)
Rank(x) ==
  IF InputsOf(x) = {} THEN 0 ELSE 1 + Max({Rank(y) : y \in InputsOf(x)})

RecordedIds == {RecordAt(pj).composite_traintuple_id : pj \in Recorded} \cup AggIds

\* C30: every input reference of every recorded operation is the id of an
\* operation recorded earlier (ids are drawn in the order of recording), so
\* no reference dangles and the graph has no cycle.
C30_InputsRecordedEarlier ==
  /\ \A x \in RecordedIds : \A y \in InputsOf(x) : y \in RecordedIds /\ y < x
  /\ \A e \in TestNodes : \A j \in 1..Len(test_tuples[e]) :
       test_tuples[e][j].traintuple_id \in RecordedIds

\* Two completed rounds and a predict: operations that take a local state, a
\* shared state, the train outputs and a forward operation.
C30_Witness ==
  /\ completed = 2
  /\ \E e \in TestNodes : test_tuples[e] # << >>
  /\ \E pj \in Recorded :
       /\ RecordAt(pj).algo_key = "predict"
       /\ RecordAt(pj).in_head_model_id # None
       /\ RecordAt(pj).in_trunk_model_id # None

\* C31: after a predict call, successful or failed, the stored local states
\* and the stored shared-state ref are what they were before it; a
\* perform_round call that fails leaves them too, and one that completes
\* replaces both, by the refs of its own train operations and of its own
\* aggregation.
C31_OnlyCompletedRoundWritesState ==
  /\ last.op = "predict" =>
       local_states = last.pre_local_states /\ avg_shared_state = last.pre_avg
  /\ (last.op = "perform_round" /\ last.outcome # "ok") =>
       local_states = last.pre_local_states /\ avg_shared_state = last.pre_avg
  /\ RoundOk =>
       /\ ~local_states.isNone
       /\ Len(local_states.refs) = Len(last.train_data_nodes)
       /\ \A i \in 1..Len(local_states.refs) :
            local_states.refs[i] = last.pre_next_op + i - 1
       /\ avg_shared_state = last.pre_next_op + Len(last.train_data_nodes)
       /\ avg_shared_state # last.pre_avg

\* A predict call that failed at its second evaluation node, after the
\* forward operation of the first one was recorded, with a round completed.
C31_Witness ==
  /\ last.op = "predict"
  /\ last.outcome # "ok"
  /\ last.fail_at = 2
  /\ next_op > last.pre_next_op
  /\ ~local_states.isNone
  /\ avg_shared_state # None

\* ------------------------------------------------------------- Algo claims
\* The local model the last call worked on.
LocalModel == IF algo.head_model = None THEN Self ELSE algo.head_model

\* C32: train without a shared state runs the local update on the weights the
\* local model holds, and train with a shared state first sets the local
\* model's weights to it; the local model is the algorithm itself when no
\* prior local state is given, and train returns it with its weights after
\* the update.  predict raises AssertionError, running nothing and changing
\* nothing, when the local state or the shared state is absent.
C32_TrainAndPredictWrapper ==
  /\ algo.op = "train" =>
       /\ algo.raised = "none"
       /\ algo.trunk_model = None =>
            algo.events =
              << <<"perform_update", LocalModel, algo.pre_weights[LocalModel], TrainData>> >>
       /\ algo.trunk_model # None =>
            algo.events =
              << <<"weights", LocalModel, algo.trunk_model>>,
                 <<"perform_update", LocalModel, algo.trunk_model, TrainData>> >>
       /\ algo.returned = <<LocalModel, algo.weights[LocalModel]>>
       /\ algo.weights[LocalModel] \in UpdatedValues
       /\ \A m \in Models \ {LocalModel} : algo.weights[m] = algo.pre_weights[m]
  /\ (algo.op = "predict" /\ (algo.head_model = None \/ algo.trunk_model = None)) =>
       /\ algo.raised = "AssertionError"
       /\ algo.events = << >>
       /\ algo.weights = algo.pre_weights

\* train with no prior local state and a shared state: the algorithm itself
\* takes the shared state as weights, is updated and returned.
C32_Witness ==
  /\ algo.op = "train"
  /\ algo.head_model = None
  /\ algo.trunk_model = 21
  /\ Len(algo.events) = 2
  /\ algo.returned[1] = Self
  /\ algo.weights[Self] \in UpdatedValues

====
